---------------------------- MODULE Spec2Model ----------------------------
(***************************************************************************)
(* Word-Bubbler: the inbound-SMS command processor (SMSService), its       *)
(* throttle engine (RateLimitService), the profile directory calls it      *)
(* makes (ProfileService) and the Twilio webhook that drives it.           *)
(*                                                                         *)
(* Time is counted in whole seconds (Date.now() / 1000).  Texts, session   *)
(* ids and phone numbers are sequences of one-character strings, so that   *)
(* trim, toUpperCase, toLowerCase and split are computed, not assumed.     *)
(* Every await of the async handlers is a separate step of a request, so   *)
(* two webhook invocations interleave exactly where Node can interleave    *)
(* them.                                                                   *)
(***************************************************************************)
EXTENDS Integers, Sequences, FiniteSets, TLC

VARIABLES
    now,             \* wall clock, seconds
    responses,       \* table `responses`, in insertion order
    profiles,        \* table `respondent_profiles`, keyed by phone number
    profileTags,     \* table `profile_tags`
    activeSessions,  \* SMSService.activeSessions : phoneNumber -> SMSSession
    cache,           \* RateLimitService.cache / cacheExpiry
    console,         \* what logViolation writes (console.log only)
    reqs,            \* webhook invocations in flight
    msgCount,        \* inbound messages accepted so far (bounded)
    acks,            \* webhook responses sent to the provider
    throttleRules,   \* RateLimitService.defaultRules, the rule table
    pollSessions     \* table `poll_sessions`

vars == <<now, responses, profiles, profileTags, activeSessions, cache,
          console, reqs, msgCount, acks, throttleRules, pollSessions>>

-----------------------------------------------------------------------------
(* Bounds of the model *)

MaxMsgs == 3
MaxTime == 10
MaxInflight == 2
MaxSerialMsgs == 7
MaxRejoinMsgs == 5

-----------------------------------------------------------------------------
(* Characters and strings *)

Uppers == <<"A","B","C","D","E","F","G","H","I","J","K","L","M",
            "N","O","P","Q","R","S","T","U","V","W","X","Y","Z">>
Lowers == <<"a","b","c","d","e","f","g","h","i","j","k","l","m",
            "n","o","p","q","r","s","t","u","v","w","x","y","z">>

\* the characters String.prototype.trim and the regex class \s remove
WhiteSpace == {" ", "\t", "\n", "\r"}

\* the letters toUpperCase / toLowerCase change, with their images
upperOf == [c \in {Lowers[k] : k \in DOMAIN Lowers} |->
              Uppers[CHOOSE k \in DOMAIN Lowers : Lowers[k] = c]]
lowerOf == [c \in {Uppers[k] : k \in DOMAIN Uppers} |->
              Lowers[CHOOSE k \in DOMAIN Uppers : Uppers[k] = c]]

\* a toUpperCase that leaves every letter as it is
keepCase(s) == s

toUpperCase(s) ==
    [i \in DOMAIN s |-> IF s[i] \in DOMAIN upperOf THEN upperOf[s[i]] ELSE s[i]]

toLowerCase(s) ==
    [i \in DOMAIN s |-> IF s[i] \in DOMAIN lowerOf THEN lowerOf[s[i]] ELSE s[i]]

\* String.prototype.trim: drop the blanks before the first and after the
\* last non-blank character
trim(s) ==
    IF \A i \in DOMAIN s : s[i] \in WhiteSpace THEN << >>
    ELSE LET lead  == CHOOSE k \in 0..(Len(s) - 1) :
                        /\ s[k + 1] \notin WhiteSpace
                        /\ \A j \in 1..k : s[j] \in WhiteSpace
             trail == CHOOSE k \in 0..(Len(s) - 1) :
                        /\ s[Len(s) - k] \notin WhiteSpace
                        /\ \A j \in (Len(s) - k + 1)..Len(s) : s[j] \in WhiteSpace
         IN  SubSeq(s, lead + 1, Len(s) - trail)

\* s.split(' '): the pieces between single spaces, empty pieces included
splitSpace(s) ==
    LET cuts == {i \in DOMAIN s : s[i] = " "}
        n    == Cardinality(cuts)
        \* position of the k-th space; 0 and Len(s)+1 are the two ends
        cut(k) == IF k = 0 THEN 0
                  ELSE IF k = n + 1 THEN Len(s) + 1
                  ELSE CHOOSE i \in cuts :
                         Cardinality({j \in cuts : j < i}) = k - 1
    IN  [k \in 1..(n + 1) |-> SubSeq(s, cut(k - 1) + 1, cut(k) - 1)]

\* new Set(s.split(/\s+/)) for a trimmed s: its maximal runs of
\* non-blank characters; "".split(/\s+/) is [""]
wordSet(s) ==
    IF s = << >> THEN {<< >>}
    ELSE LET starts == {i \in DOMAIN s :
                          /\ s[i] \notin WhiteSpace
                          /\ (i = 1 \/ s[i - 1] \in WhiteSpace)}
             ends   == {i \in DOMAIN s :
                          /\ s[i] \notin WhiteSpace
                          /\ (i = Len(s) \/ s[i + 1] \in WhiteSpace)}
             endOf(i) == CHOOSE j \in ends :
                           j >= i /\ \A k \in ends : k >= i => j <= k
         IN  {SubSeq(s, i, endOf(i)) : i \in starts}

\* intersection.size / union.size > 0.9, kept in integers
calculateSimilarityOver90(text1, text2) ==
    LET words1 == wordSet(text1)
        words2 == wordSet(text2)
    IN  10 * Cardinality(words1 \cap words2) > 9 * Cardinality(words1 \cup words2)

Repeat(c, n) == [i \in 1..n |-> c]


-----------------------------------------------------------------------------
(* Static data: the rule table, the poll sessions, the senders *)

SmsRule ==
    [name |-> <<"SMS", "Standard", "Rate", "Limit">>, enabled |-> TRUE,
     maxResponsesPerMinute |-> 3, maxResponsesPerHour |-> 15,
     maxResponsesPerDay |-> 50, duplicateContentWindow |-> 5,
     minResponseLength |-> 1, maxResponseLength |-> 500,
     maxResponsesPerSessionPerProfile |-> 10, cooldownBetweenResponses |-> 10,
     violationCooldown |-> 5, maxViolationsBeforeBlock |-> 5,
     allowedPhonePatterns |-> << >>, blockedPhonePatterns |-> << >>]

WebRule ==
    [name |-> <<"Web", "Standard", "Rate", "Limit">>, enabled |-> TRUE,
     maxResponsesPerMinute |-> 5, maxResponsesPerHour |-> 30,
     maxResponsesPerDay |-> 100, duplicateContentWindow |-> 2,
     minResponseLength |-> 1, maxResponseLength |-> 1000,
     maxResponsesPerSessionPerProfile |-> 20, cooldownBetweenResponses |-> 5,
     violationCooldown |-> 3, maxViolationsBeforeBlock |-> 10,
     allowedPhonePatterns |-> << >>, blockedPhonePatterns |-> << >>]

VipRule ==
    [name |-> <<"VIP", "Rate", "Limit">>, enabled |-> FALSE,
     maxResponsesPerMinute |-> 10, maxResponsesPerHour |-> 100,
     maxResponsesPerDay |-> 500, duplicateContentWindow |-> 1,
     minResponseLength |-> 1, maxResponseLength |-> 2000,
     maxResponsesPerSessionPerProfile |-> 50, cooldownBetweenResponses |-> 2,
     violationCooldown |-> 1, maxViolationsBeforeBlock |-> 20,
     allowedPhonePatterns |-> << <<"+","1","5","5","5">> >>,
     blockedPhonePatterns |-> << >>]

defaultRules == <<SmsRule, WebRule, VipRule>>

\* a second rule for the SMS channel that wants at least three characters
SmsStrictRule ==
    [SmsRule EXCEPT !.name = <<"SMS", "Strict", "Rate", "Limit">>,
                    !.minResponseLength = 3]

\* rule tables: the one shipped, the one shipped with its VIP rule switched
\* on, and one with two rules for the SMS channel
RuleTables ==
    {defaultRules,
     <<SmsRule, WebRule, [VipRule EXCEPT !.enabled = TRUE]>>,
     <<SmsRule, SmsStrictRule, WebRule, VipRule>>}

\* new RegExp('^\\+1555').test(phoneNumber): the patterns of the table are
\* anchored literal prefixes
patternTest(pattern, phoneNumber) ==
    /\ Len(phoneNumber) >= Len(pattern)
    /\ SubSeq(phoneNumber, 1, Len(pattern)) = pattern

\* rule.name.includes('SMS') / includes('Web'): the tag is a whole word of
\* every name of the table
nameIncludes(rule, tag) == \E i \in DOMAIN rule.name : rule.name[i] = tag

ruleApplies(rule, phoneNumber, submissionMethod) ==
    IF ~rule.enabled THEN FALSE
    ELSE IF rule.allowedPhonePatterns # << >>
    THEN \E i \in DOMAIN rule.allowedPhonePatterns :
            patternTest(rule.allowedPhonePatterns[i], phoneNumber)
    ELSE IF /\ rule.blockedPhonePatterns # << >>
            /\ \E i \in DOMAIN rule.blockedPhonePatterns :
                  patternTest(rule.blockedPhonePatterns[i], phoneNumber)
    THEN FALSE
    ELSE \/ submissionMethod = "sms" /\ nameIncludes(rule, "SMS")
         \/ submissionMethod = "web" /\ nameIncludes(rule, "Web")

getApplicableRules(phoneNumber, submissionMethod) ==
    SelectSeq(throttleRules,
              LAMBDA rule : ruleApplies(rule, phoneNumber, submissionMethod))

SidOpen   == <<"A","B","C","1","2","3">>
SidOther  == <<"X","Y","Z","7","8","9">>
SidClosed == <<"O","L","D","0","0","1">>
SidNoSms  == <<"W","E","B","0","0","2">>
\* an id no row of poll_sessions carries
SidMissing == <<"N","O","N","E","0","0">>

\* rows of table poll_sessions when the service starts
pollSessionRows ==
    {[id |-> SidOpen,   allowSms |-> TRUE, isActive |-> TRUE],
     [id |-> SidOther,  allowSms |-> TRUE, isActive |-> TRUE],
     [id |-> SidClosed, allowSms |-> TRUE, isActive |-> FALSE],
     [id |-> SidNoSms,  allowSms |-> FALSE, isActive |-> TRUE]}

PhoneA == <<"+","1","4","1","5","5","5","5","0","0","0","1">>
PhoneB == <<"+","1","5","5","5","5","5","5","0","0","0","2">>
Phones == {PhoneA, PhoneB}

-----------------------------------------------------------------------------
(* Inbound message bodies *)

JoinMsg(sid) == <<"J","O","I","N"," ">> \o sid
MsgLeave == <<"L","E","A","V","E">>
MsgStop  == <<"S","T","O","P">>
TextLove    == <<"I"," ","l","o","v","e"," ","t","h","i","s">>
TextLoveAlt == <<"i"," ","l","o","v","e"," ","t","h","i","s"," ">>
TextOther   == <<"h","i">>
TextBlank   == <<" ">>
TextTooLong == Repeat("x", SmsRule.maxResponseLength + 1)

Bodies ==
    {JoinMsg(SidOpen), MsgLeave, MsgStop,
     TextLove, TextLoveAlt, TextOther, TextBlank, TextTooLong}

\* what the senders send: PhoneA anything, PhoneB a join and an answer
Inputs ==
    ({PhoneA} \X Bodies) \cup ({PhoneB} \X {JoinMsg(SidOpen), TextOther})

\* "join abc123"
JoinLower == <<"j","o","i","n"," ">> \o toLowerCase(SidOpen)
JoinAlone == <<"J","O","I","N">>
\* "JOIN  ABC123", two blanks
JoinTwoBlanks == <<"J","O","I","N"," "," ">> \o SidOpen
MsgLeavePadded == <<" ","L","e","a","v","e"," ">>
MsgExit   == <<"e","x","i","t">>
MsgQuit   == <<"Q","u","i","t"," ","n","o","w">>
MsgHelp   == <<"h","e","l","p"," ","m","e">>
MsgQuery  == <<"?">>
MsgCancel == <<"c","a","n","c","e","l">>
MsgUnsubscribe == <<"U","N","S","U","B","S","C","R","I","B","E">>

\* one sender trying every word of the command vocabulary, and two
\* different contributions
CommandBodies ==
    {JoinLower, JoinMsg(SidOther), JoinMsg(SidClosed), JoinMsg(SidNoSms),
     JoinMsg(SidMissing), JoinAlone, JoinTwoBlanks, MsgLeavePadded, MsgExit, MsgQuit, MsgHelp,
     MsgQuery, MsgCancel, MsgUnsubscribe, MsgStop, TextOther, TextLove}

CommandInputs == {PhoneA} \X CommandBodies

\* the messages explored together with failing database calls
InputsUnderFaults ==
    {PhoneA} \X {JoinMsg(SidOpen), MsgStop,
                 TextLove, TextLoveAlt, TextBlank, TextTooLong}

-----------------------------------------------------------------------------
(* RateLimitService *)

\* rows of `responses` of a profile, by index (isDeleted is never set by
\* the pipeline, so every row passes eq(isDeleted, false))
rowsOf(profileId) == {i \in DOMAIN responses : responses[i].profileId = profileId}

\* the rows a query with gte(submittedAt, since) returns
rowsSince(profileId, since) ==
    {i \in rowsOf(profileId) : responses[i].submittedAt >= since}

\* orderBy(desc(submittedAt)).limit(n): the n newest rows (insertion order
\* is time order; rows of one instant are taken newest insert first)
newestRows(rows, n) ==
    {i \in rows : Cardinality({j \in rows : j > i}) < n}

getRecentViolations(profileId, windowMinutes) == << >>

getLastResponse(profileId) == newestRows(rowsOf(profileId), 1)

\* a getSessionResponseCount that reads the counter of the attachment
getSessionResponseCountOfAttachment(profileId, sessionId) ==
    IF /\ profileId \in DOMAIN activeSessions
       /\ activeSessions[profileId].sessionId = sessionId
    THEN activeSessions[profileId].responseCount
    ELSE 0

getSessionResponseCount(profileId, sessionId) ==
    Cardinality({i \in rowsOf(profileId) : responses[i].sessionId = sessionId})

cacheKey(profileId, periodMinutes) == <<profileId, periodMinutes>>

cacheHit(c, profileId, periodMinutes) ==
    /\ cacheKey(profileId, periodMinutes) \in DOMAIN c
    /\ c[cacheKey(profileId, periodMinutes)].expiry > now

\* checkTimeBasedLimit: the count it compares with the cap, and the cache
\* it leaves behind
timeLimitCount(c, profileId, periodMinutes) ==
    IF cacheHit(c, profileId, periodMinutes)
    THEN c[cacheKey(profileId, periodMinutes)].count
    ELSE Cardinality(rowsSince(profileId, now - periodMinutes * 60))

timeLimitCache(c, profileId, periodMinutes) ==
    IF cacheHit(c, profileId, periodMinutes) THEN c
    ELSE [k \in DOMAIN c \cup {cacheKey(profileId, periodMinutes)} |->
            IF k = cacheKey(profileId, periodMinutes)
            THEN [count  |-> Cardinality(rowsSince(profileId, now - periodMinutes * 60)),
                  expiry |-> now + 60]
            ELSE c[k]]

\* checkDuplicateContent comparing the texts as they were typed
checkDuplicateContentRaw(profileId, responseText, windowMinutes) ==
    LET recentResponses ==
            newestRows(rowsSince(profileId, now - windowMinutes * 60), 10)
    IN  ~ \E i \in recentResponses :
            \/ responses[i].textContent = responseText
            \/ calculateSimilarityOver90(responseText, responses[i].textContent)

checkDuplicateContent(profileId, responseText, windowMinutes) ==
    LET normalizedText  == trim(toLowerCase(responseText))
        recentResponses ==
            newestRows(rowsSince(profileId, now - windowMinutes * 60), 10)
    IN  ~ \E i \in recentResponses :
            LET existingText == trim(toLowerCase(responses[i].textContent))
            IN  \/ existingText = normalizedText
                \/ calculateSimilarityOver90(normalizedText, existingText)

\* lengthViolation with the upper test forgotten
lengthViolationNoMax(rule, responseText) ==
    Len(responseText) < rule.minResponseLength

\* the two length tests of checkAgainstRule
lengthViolation(rule, responseText) ==
    \/ Len(responseText) < rule.minResponseLength
    \/ Len(responseText) > rule.maxResponseLength

\* results of checkAgainstRule; waitTime 0 stands for an absent waitTime,
\* outcome "throw" for a rejected promise.  `c` is the cache afterwards.
Allowed(c) ==
    [outcome |-> "allow", violationType |-> "none", waitTime |-> 0, c |-> c]
Denied(type, wait, c) ==
    [outcome |-> "deny", violationType |-> type, waitTime |-> wait, c |-> c]
Thrown(c) ==
    [outcome |-> "throw", violationType |-> "none", waitTime |-> 0, c |-> c]

\* the queries of checkAgainstRule, in the order they are awaited
Queries == <<"last", "minute", "hour", "day", "session", "duplicate">>
Faults  == {"none"} \cup {Queries[i] : i \in DOMAIN Queries}

\* checkAgainstRule, with the database failing at query `fault` (if that
\* query is reached and actually sent)
\* a checkAgainstRule that tests the spacing before the length
checkAgainstRuleSpacingFirst(rule, c, profileId, sessionId, responseText, fault) ==
    LET last == getLastResponse(profileId)
        sinceLast(i) == now - responses[i].submittedAt
        c1 == timeLimitCache(c, profileId, 1)
        c2 == timeLimitCache(c1, profileId, 60)
        c3 == timeLimitCache(c2, profileId, 1440)
    IN
    IF \E i \in last : sinceLast(i) < rule.cooldownBetweenResponses
    THEN Denied("cooldown_violation",
                rule.cooldownBetweenResponses
                  - sinceLast(CHOOSE i \in last : TRUE), c)
    ELSE IF lengthViolation(rule, responseText)
    THEN Denied("length_violation", 0, c)
    ELSE IF timeLimitCount(c, profileId, 1) >= rule.maxResponsesPerMinute
    THEN Denied("rate_limit", 60, c1)
    ELSE IF timeLimitCount(c1, profileId, 60) >= rule.maxResponsesPerHour
    THEN Denied("rate_limit", 3600, c2)
    ELSE IF timeLimitCount(c2, profileId, 1440) >= rule.maxResponsesPerDay
    THEN Denied("rate_limit", 86400, c3)
    ELSE IF getSessionResponseCount(profileId, sessionId)
              >= rule.maxResponsesPerSessionPerProfile
    THEN Denied("rate_limit", 0, c3)
    ELSE IF ~checkDuplicateContent(profileId, responseText,
                                   rule.duplicateContentWindow)
    THEN Denied("duplicate_content", 0, c3)
    ELSE Allowed(c3)

checkAgainstRule(rule, c, profileId, sessionId, responseText, fault) ==
    LET last == getLastResponse(profileId)
        sinceLast(i) == now - responses[i].submittedAt
        c1 == timeLimitCache(c, profileId, 1)
        c2 == timeLimitCache(c1, profileId, 60)
        c3 == timeLimitCache(c2, profileId, 1440)
        miss(cc, period) == ~cacheHit(cc, profileId, period)
    IN
    IF lengthViolation(rule, responseText)
    THEN Denied("length_violation", 0, c)
    ELSE IF Len(getRecentViolations(profileId, rule.violationCooldown))
              >= rule.maxViolationsBeforeBlock
    THEN Denied("cooldown_violation", rule.violationCooldown * 60, c)
    ELSE IF fault = "last" THEN Thrown(c)
    ELSE IF \E i \in last : sinceLast(i) < rule.cooldownBetweenResponses
    THEN Denied("cooldown_violation",
                rule.cooldownBetweenResponses
                  - sinceLast(CHOOSE i \in last : TRUE), c)
    ELSE IF fault = "minute" /\ miss(c, 1) THEN Thrown(c)
    ELSE IF timeLimitCount(c, profileId, 1) >= rule.maxResponsesPerMinute
    THEN Denied("rate_limit", 60, c1)
    ELSE IF fault = "hour" /\ miss(c1, 60) THEN Thrown(c1)
    ELSE IF timeLimitCount(c1, profileId, 60) >= rule.maxResponsesPerHour
    THEN Denied("rate_limit", 3600, c2)
    ELSE IF fault = "day" /\ miss(c2, 1440) THEN Thrown(c2)
    ELSE IF timeLimitCount(c2, profileId, 1440) >= rule.maxResponsesPerDay
    THEN Denied("rate_limit", 86400, c3)
    ELSE IF fault = "session" THEN Thrown(c3)
    ELSE IF getSessionResponseCount(profileId, sessionId)
              >= rule.maxResponsesPerSessionPerProfile
    THEN Denied("rate_limit", 0, c3)
    ELSE IF fault = "duplicate" THEN Thrown(c3)
    ELSE IF ~checkDuplicateContent(profileId, responseText,
                                   rule.duplicateContentWindow)
    THEN Denied("duplicate_content", 0, c3)
    ELSE Allowed(c3)

\* the loop of checkRateLimit over rules[from..]; it stops at the first
\* rule that denies or throws
RECURSIVE checkRules(_, _, _, _, _, _, _)
checkRules(rules, from, c, profileId, sessionId, responseText, fault) ==
    IF from > Len(rules) THEN Allowed(c) @@ [ruleName |-> << >>]
    ELSE LET r == checkAgainstRule(rules[from], c, profileId, sessionId,
                                   responseText, fault)
         IN  IF r.outcome = "allow"
             THEN checkRules(rules, from + 1, r.c, profileId, sessionId,
                             responseText, fault)
             ELSE r @@ [ruleName |-> rules[from].name]

\* a checkRateLimit whose catch turns the fault into a denial
checkRateLimitFailClosed(profileId, phoneNumber, sessionId, responseText, submissionMethod, fault) ==
    LET r == checkRules(getApplicableRules(phoneNumber, submissionMethod), 1,
                        cache, profileId, sessionId, responseText, fault)
    IN  [allowed       |-> r.outcome = "allow",
         violationType |-> IF r.outcome = "deny" THEN r.violationType
                           ELSE IF r.outcome = "throw" THEN "rate_limit"
                           ELSE "none",
         waitTime      |-> IF r.outcome = "deny" THEN r.waitTime ELSE 0,
         failedOpen    |-> r.outcome = "throw",
         ruleName      |-> r.ruleName,
         c             |-> r.c]

\* checkRateLimit: what it returns (allowed, violationType, waitTime),
\* whether it got there through its catch (failedOpen), the cache it
\* leaves and the violation it logged
checkRateLimit(profileId, phoneNumber, sessionId, responseText, submissionMethod, fault) ==
    LET r == checkRules(getApplicableRules(phoneNumber, submissionMethod), 1,
                        cache, profileId, sessionId, responseText, fault)
    IN  [allowed       |-> r.outcome # "deny",
         violationType |-> IF r.outcome = "deny" THEN r.violationType ELSE "none",
         waitTime      |-> IF r.outcome = "deny" THEN r.waitTime ELSE 0,
         failedOpen    |-> r.outcome = "throw",
         ruleName      |-> r.ruleName,
         c             |-> r.c]

\* logViolation: one console line, nothing stored
logViolation(profileId, phoneNumber, result, ruleName) ==
    Append(console, [profileId |-> profileId, phoneNumber |-> phoneNumber,
                     violationType |-> result.violationType,
                     ruleName |-> ruleName, timestamp |-> now])

-----------------------------------------------------------------------------
(* SMSService.parseIncomingMessage *)

\* a parser that looks at the attachment before the vocabulary
parseIncomingMessageAttachedFirst(phoneNumber, messageBody) ==
    LET cleanMessage == toUpperCase(trim(messageBody))
        words        == splitSpace(cleanMessage)
        firstWord    == words[1]
    IN  IF /\ phoneNumber \in DOMAIN activeSessions
           /\ activeSessions[phoneNumber].isActive
        THEN [commandType |-> "RESPONSE",
              sessionId   |-> activeSessions[phoneNumber].sessionId]
        ELSE IF firstWord = <<"J","O","I","N">> /\ Len(words) >= 2
        THEN [commandType |-> "JOIN", sessionId |-> words[2]]
        ELSE IF firstWord \in {<<"L","E","A","V","E">>, <<"E","X","I","T">>,
                               <<"Q","U","I","T">>}
        THEN [commandType |-> "LEAVE", sessionId |-> << >>]
        ELSE IF firstWord \in {<<"H","E","L","P">>, <<"?">>}
        THEN [commandType |-> "HELP", sessionId |-> << >>]
        ELSE IF firstWord \in {<<"S","T","O","P">>,
                               <<"U","N","S","U","B","S","C","R","I","B","E">>,
                               <<"C","A","N","C","E","L">>}
        THEN [commandType |-> "STOP", sessionId |-> << >>]
        ELSE [commandType |-> "UNKNOWN", sessionId |-> << >>]

parseIncomingMessage(phoneNumber, messageBody) ==
    LET cleanMessage == toUpperCase(trim(messageBody))
        words        == splitSpace(cleanMessage)
        firstWord    == words[1]
        attached     == /\ phoneNumber \in DOMAIN activeSessions
                        /\ activeSessions[phoneNumber].isActive
    IN  IF firstWord = <<"J","O","I","N">> /\ Len(words) >= 2
        THEN [commandType |-> "JOIN", sessionId |-> words[2]]
        ELSE IF firstWord \in {<<"L","E","A","V","E">>, <<"E","X","I","T">>,
                               <<"Q","U","I","T">>}
        THEN [commandType |-> "LEAVE", sessionId |-> << >>]
        ELSE IF firstWord \in {<<"H","E","L","P">>, <<"?">>}
        THEN [commandType |-> "HELP", sessionId |-> << >>]
        ELSE IF firstWord \in {<<"S","T","O","P">>,
                               <<"U","N","S","U","B","S","C","R","I","B","E">>,
                               <<"C","A","N","C","E","L">>}
        THEN [commandType |-> "STOP", sessionId |-> << >>]
        ELSE IF attached
        THEN [commandType |-> "RESPONSE",
              sessionId   |-> activeSessions[phoneNumber].sessionId]
        ELSE [commandType |-> "UNKNOWN", sessionId |-> << >>]

Digits == {"0", "1", "2", "3", "4", "5", "6", "7", "8", "9"}

\* phoneNumber.replace(/\D/g, '')
stripNonDigits(phoneNumber) == SelectSeq(phoneNumber, LAMBDA ch : ch \in Digits)

\* validatePhoneNumber; formatted is empty when the number is refused
validatePhoneNumber(phoneNumber) ==
    LET cleaned == stripNonDigits(phoneNumber) IN
    IF Len(cleaned) < 10 \/ Len(cleaned) > 15
    THEN [valid |-> FALSE, formatted |-> << >>]
    ELSE [valid     |-> TRUE,
          formatted |-> IF cleaned[1] = "1" THEN <<"+">> \o cleaned
                        ELSE <<"+", "1">> \o cleaned]

-----------------------------------------------------------------------------
(* Requests: one per webhook invocation *)

Slots == 1..MaxInflight

NoResult == [allowed |-> TRUE, violationType |-> "none", waitTime |-> 0,
             failedOpen |-> FALSE]

IdleReq == [pc |-> "idle", phone |-> << >>, body |-> << >>,
            cmd |-> "NONE", sessionId |-> << >>, text |-> << >>,
            rl |-> NoResult, success |-> FALSE, reply |-> "none"]

\* processIncomingSMS returns {success, reply}
Return(r, success, reply) ==
    [r EXCEPT !.pc = "reply", !.success = success, !.reply = reply]

\* a catch of processIncomingSMS that returns no reply text
CatchProcessSilent(r) == Return(r, FALSE, "none")

\* the catch of processIncomingSMS
CatchProcess(r) == Return(r, FALSE, "generic_error")

\* a catch of handleResponseSubmission that answers with the fallback text
\* of processIncomingSMS
CatchSubmissionGeneric(r) == Return(r, FALSE, "generic_error")

\* the catch of handleResponseSubmission
CatchSubmission(r) == Return(r, FALSE, "save_error")

-----------------------------------------------------------------------------
(* Initial states: the process has just started (its maps are empty) and   *)
(* the database holds what earlier runs of the service left in it.         *)

Row(sessionId, profileId, textContent, submittedAt) ==
    [sessionId |-> sessionId, profileId |-> profileId,
     textContent |-> textContent, submittedAt |-> submittedAt]

\* nine contributions of PhoneA to SidOpen, more than two days old
HistOld == [i \in 1..9 |-> Row(SidOpen, PhoneA, <<Lowers[i]>>, 30 * i - 200000)]

\* eleven contributions of PhoneA in the last five minutes, 28 s apart,
\* six to SidOpen and then five to SidOther; the oldest says TextLove, the
\* next one "hi HI"
HistRecent ==
    [i \in 1..11 |->
        Row(IF i <= 6 THEN SidOpen ELSE SidOther, PhoneA,
            IF i = 1 THEN TextLove
            ELSE IF i = 2 THEN <<"h","i"," ","H","I">>
            ELSE <<Lowers[i]>>,
            28 * i - 318)]

Histories == {<< >>, HistOld, HistRecent}

Init ==
    /\ now = 0
    /\ responses \in Histories
    /\ profiles = [p \in {responses[i].profileId : i \in DOMAIN responses} |->
                     [isBlocked |-> FALSE,
                      totalResponses |-> Cardinality(rowsOf(p))]]
    /\ profileTags = {}
    /\ activeSessions = << >>
    /\ cache = << >>
    /\ console = << >>
    /\ reqs = [s \in Slots |-> IdleReq]
    /\ msgCount = 0
    /\ acks = 0
    /\ throttleRules = defaultRules
    /\ pollSessions = pollSessionRows

-----------------------------------------------------------------------------
(* Actions *)

TickSteps == {10}

Tick(d) ==
    /\ now + d <= MaxTime
    /\ now' = now + d
    /\ UNCHANGED <<responses, profiles, profileTags, activeSessions, cache,
                   console, reqs, msgCount>>
    /\ UNCHANGED <<acks, throttleRules, pollSessions>>

\* webhook handler: From and Body present; processIncomingSMS parses the
\* message and awaits the profile
Receive(s, phoneNumber, messageBody, limit) ==
    /\ msgCount < limit
    /\ reqs[s].pc = "idle"
    /\ \A t \in Slots : t < s => reqs[t].pc # "idle"
    /\ LET smsResponse == parseIncomingMessage(phoneNumber, messageBody)
       IN  reqs' = [reqs EXCEPT ![s] =
                      [IdleReq EXCEPT !.pc = "profile",
                                      !.phone = phoneNumber,
                                      !.body = messageBody,
                                      !.cmd = smsResponse.commandType,
                                      !.sessionId = smsResponse.sessionId]]
    /\ msgCount' = msgCount + 1
    /\ UNCHANGED <<now, responses, profiles, profileTags, activeSessions,
                   cache, console>>
    /\ UNCHANGED <<acks, throttleRules, pollSessions>>

\* ProfileService.getOrCreateProfile
getOrCreateProfile(phoneNumber) ==
    IF phoneNumber \in DOMAIN profiles THEN profiles
    ELSE [p \in DOMAIN profiles \cup {phoneNumber} |->
            IF p = phoneNumber
            THEN [isBlocked |-> FALSE, totalResponses |-> 0]
            ELSE profiles[p]]

\* a handleLeaveCommand that drops the entry of a sender who is not in a
\* session
handleLeaveCommandForget(r) ==
    IF \/ r.phone \notin DOMAIN activeSessions
       \/ ~activeSessions[r.phone].isActive
    THEN [req |-> Return(r, FALSE, "not_in_session"),
          map |-> [p \in DOMAIN activeSessions \ {r.phone} |-> activeSessions[p]]]
    ELSE [req |-> Return(r, TRUE, "left"),
          map |-> [activeSessions EXCEPT ![r.phone].isActive = FALSE]]

\* handleLeaveCommand
handleLeaveCommand(r) ==
    IF \/ r.phone \notin DOMAIN activeSessions
       \/ ~activeSessions[r.phone].isActive
    THEN [req |-> Return(r, FALSE, "not_in_session"), map |-> activeSessions]
    ELSE [req |-> Return(r, TRUE, "left"),
          map |-> [activeSessions EXCEPT ![r.phone].isActive = FALSE]]

\* processIncomingSMS after the profile is there: the dispatch, and every
\* handler up to its first await
Dispatch(s, ok) ==
    LET r == reqs[s] IN
    /\ r.pc = "profile"
    /\ IF ~ok
       THEN /\ reqs' = [reqs EXCEPT ![s] = CatchProcess(r)]
            /\ UNCHANGED <<profiles, activeSessions>>
       ELSE /\ profiles' = getOrCreateProfile(r.phone)
            /\ CASE r.cmd = "JOIN" ->
                      /\ reqs' = [reqs EXCEPT ![s].pc = "join_select"]
                      /\ UNCHANGED activeSessions
                 [] r.cmd = "LEAVE" ->
                      /\ reqs' = [reqs EXCEPT ![s] = handleLeaveCommand(r).req]
                      /\ activeSessions' = handleLeaveCommand(r).map
                 [] r.cmd = "HELP" ->
                      /\ reqs' = [reqs EXCEPT ![s] = Return(r, TRUE, "help")]
                      /\ UNCHANGED activeSessions
                 [] r.cmd = "STOP" ->
                      /\ reqs' = [reqs EXCEPT ![s].pc = "stop_profile"]
                      /\ UNCHANGED activeSessions
                 [] r.cmd = "RESPONSE" ->
                      /\ reqs' = [reqs EXCEPT ![s] =
                            IF Len(trim(r.body)) = 0
                            THEN Return(r, FALSE, "empty")
                            ELSE [r EXCEPT !.pc = "rate_check",
                                           !.text = trim(r.body)]]
                      /\ UNCHANGED activeSessions
                 [] OTHER ->
                      /\ reqs' = [reqs EXCEPT ![s] = Return(r, FALSE, "unknown")]
                      /\ UNCHANGED activeSessions
    /\ UNCHANGED <<now, responses, profileTags, cache, console, msgCount>>
    /\ UNCHANGED <<acks, throttleRules, pollSessions>>

\* SMSSession written by handleJoinCommand
attach(phoneNumber, sessionId) ==
    [p \in DOMAIN activeSessions \cup {phoneNumber} |->
        IF p = phoneNumber
        THEN [sessionId |-> sessionId, responseCount |-> 0, isActive |-> TRUE]
        ELSE activeSessions[p]]

\* a handleJoinCommand that attaches to whatever row the lookup returns
JoinSelectUnchecked(s, ok) ==
    LET r == reqs[s]
        session == {row \in pollSessions : row.id = r.sessionId}
    IN
    /\ r.pc = "join_select"
    /\ IF ~ok
       THEN /\ reqs' = [reqs EXCEPT ![s] = CatchProcess(r)]
            /\ UNCHANGED activeSessions
       ELSE IF session = {}
       THEN /\ reqs' = [reqs EXCEPT ![s] = Return(r, FALSE, "not_found")]
            /\ UNCHANGED activeSessions
       ELSE /\ activeSessions' = attach(r.phone, r.sessionId)
            /\ reqs' = [reqs EXCEPT ![s].pc = "join_tag"]
    /\ UNCHANGED <<now, responses, profiles, profileTags, cache, console,
                   msgCount, acks, throttleRules, pollSessions>>

\* handleJoinCommand: the session lookup and the attach
JoinSelect(s, ok) ==
    LET r == reqs[s]
        session == {row \in pollSessions : row.id = r.sessionId}
    IN
    /\ r.pc = "join_select"
    /\ IF ~ok
       THEN /\ reqs' = [reqs EXCEPT ![s] = CatchProcess(r)]
            /\ UNCHANGED activeSessions
       ELSE IF session = {}
       THEN /\ reqs' = [reqs EXCEPT ![s] = Return(r, FALSE, "not_found")]
            /\ UNCHANGED activeSessions
       ELSE IF \E row \in session : ~row.allowSms \/ ~row.isActive
       THEN /\ reqs' = [reqs EXCEPT ![s] = Return(r, FALSE, "not_allowed")]
            /\ UNCHANGED activeSessions
       ELSE /\ activeSessions' = attach(r.phone, r.sessionId)
            /\ reqs' = [reqs EXCEPT ![s].pc = "join_tag"]
    /\ UNCHANGED <<now, responses, profiles, profileTags, cache, console,
                   msgCount>>
    /\ UNCHANGED <<acks, throttleRules, pollSessions>>

\* ProfileService.addProfileTag: the insert violates unique_profile_tag
\* when the profile already carries (tagName, tagType)
tagInsertFails(profileId, tagName, tagType) ==
    <<profileId, tagName, tagType>> \in profileTags

\* handleJoinCommand: the automatic tag and the confirmation
JoinTag(s, ok) ==
    LET r == reqs[s] IN
    /\ r.pc = "join_tag"
    /\ IF ~ok \/ tagInsertFails(r.phone, "sms_participant", "auto_behavior")
       THEN /\ reqs' = [reqs EXCEPT ![s] = CatchProcess(r)]
            /\ UNCHANGED profileTags
       ELSE /\ profileTags' = profileTags \cup
                                {<<r.phone, "sms_participant", "auto_behavior">>}
            /\ reqs' = [reqs EXCEPT ![s] = Return(r, TRUE, "join_ok")]
    /\ UNCHANGED <<now, responses, profiles, activeSessions, cache, console,
                   msgCount>>
    /\ UNCHANGED <<acks, throttleRules, pollSessions>>

\* handleStopCommand: its own profile lookup
StopProfile(s, ok) ==
    LET r == reqs[s] IN
    /\ r.pc = "stop_profile"
    /\ IF ~ok
       THEN /\ reqs' = [reqs EXCEPT ![s] = CatchProcess(r)]
            /\ UNCHANGED profiles
       ELSE /\ profiles' = getOrCreateProfile(r.phone)
            /\ reqs' = [reqs EXCEPT ![s].pc = "stop_update"]
    /\ UNCHANGED <<now, responses, profileTags, activeSessions, cache,
                   console, msgCount>>
    /\ UNCHANGED <<acks, throttleRules, pollSessions>>

\* activeSessions.delete(phoneNumber)
detach(phoneNumber) ==
    [p \in DOMAIN activeSessions \ {phoneNumber} |-> activeSessions[p]]

\* handleStopCommand: the update that blocks the profile, then the delete.
\* (The service module names the table `respondentProfiles` without
\* importing it; a build in which the name is unbound always takes the
\* ~ok branch.)
StopUpdate(s, ok) ==
    LET r == reqs[s] IN
    /\ r.pc = "stop_update"
    /\ IF ~ok
       THEN /\ reqs' = [reqs EXCEPT ![s] = CatchProcess(r)]
            /\ UNCHANGED <<profiles, activeSessions>>
       ELSE /\ profiles' = [profiles EXCEPT ![r.phone].isBlocked = TRUE]
            /\ activeSessions' = detach(r.phone)
            /\ reqs' = [reqs EXCEPT ![s] = Return(r, TRUE, "stopped")]
    /\ UNCHANGED <<now, responses, profileTags, cache, console, msgCount>>
    /\ UNCHANGED <<acks, throttleRules, pollSessions>>

\* handleResponseSubmission: checkRateLimit and the denial reply
RateCheck(s, fault) ==
    LET r == reqs[s]
        result == checkRateLimit(r.phone, r.phone, r.sessionId, r.text,
                                 "sms", fault)
        rl == [allowed |-> result.allowed,
               violationType |-> result.violationType,
               waitTime |-> result.waitTime,
               failedOpen |-> result.failedOpen]
    IN
    /\ r.pc = "rate_check"
    /\ cache' = result.c
    /\ IF ~result.allowed
       THEN /\ console' = logViolation(r.phone, r.phone, result, result.ruleName)
            /\ reqs' = [reqs EXCEPT ![s] =
                          Return([r EXCEPT !.rl = rl], FALSE, "denied")]
       ELSE /\ UNCHANGED console
            /\ reqs' = [reqs EXCEPT ![s] = [r EXCEPT !.pc = "insert", !.rl = rl]]
    /\ UNCHANGED <<now, responses, profiles, profileTags, activeSessions,
                   msgCount>>
    /\ UNCHANGED <<acks, throttleRules, pollSessions>>

\* handleResponseSubmission: db.insert(responses); submittedAt defaults to
\* the time of the insert
InsertResponse(s, ok) ==
    LET r == reqs[s] IN
    /\ r.pc = "insert"
    /\ IF ~ok
       THEN /\ reqs' = [reqs EXCEPT ![s] = CatchSubmission(r)]
            /\ UNCHANGED responses
       ELSE /\ responses' = Append(responses,
                                   Row(r.sessionId, r.phone, r.text, now))
            /\ reqs' = [reqs EXCEPT ![s].pc = "metrics"]
    /\ UNCHANGED <<now, profiles, profileTags, activeSessions, cache,
                   console, msgCount>>
    /\ UNCHANGED <<acks, throttleRules, pollSessions>>

\* activeSession.responseCount++ on whatever entry the sender has now
countResponse(phoneNumber) ==
    IF phoneNumber \in DOMAIN activeSessions
    THEN [activeSessions EXCEPT ![phoneNumber].responseCount = @ + 1]
    ELSE activeSessions

\* handleResponseSubmission: ProfileService.updateProfileMetrics, then the
\* SMS session counter
UpdateMetrics(s, ok) ==
    LET r == reqs[s] IN
    /\ r.pc = "metrics"
    /\ IF ~ok
       THEN /\ reqs' = [reqs EXCEPT ![s] = CatchSubmission(r)]
            /\ UNCHANGED <<profiles, activeSessions>>
       ELSE /\ profiles' = [profiles EXCEPT ![r.phone].totalResponses = @ + 1]
            /\ activeSessions' = countResponse(r.phone)
            /\ reqs' = [reqs EXCEPT ![s].pc = "contributor_tag"]
    /\ UNCHANGED <<now, responses, profileTags, cache, console, msgCount>>
    /\ UNCHANGED <<acks, throttleRules, pollSessions>>

\* handleResponseSubmission: the contributor tag and the success reply
ContributorTag(s, ok) ==
    LET r == reqs[s] IN
    /\ r.pc = "contributor_tag"
    /\ IF ~ok \/ tagInsertFails(r.phone, "sms_active_contributor", "auto_behavior")
       THEN /\ reqs' = [reqs EXCEPT ![s] = CatchSubmission(r)]
            /\ UNCHANGED profileTags
       ELSE /\ profileTags' = profileTags \cup
                  {<<r.phone, "sms_active_contributor", "auto_behavior">>}
            /\ reqs' = [reqs EXCEPT ![s] = Return(r, TRUE, "recorded")]
    /\ UNCHANGED <<now, responses, profiles, activeSessions, cache, console,
                   msgCount>>
    /\ UNCHANGED <<acks, throttleRules, pollSessions>>

\* webhook handler: a non-empty reply goes out through sendSMS, whose
\* failure (~ok) is caught and only logged, and Twilio gets the empty TwiML
\* document with status 200
Acknowledge(s, ok) ==
    /\ reqs[s].pc = "reply"
    /\ reqs' = [reqs EXCEPT ![s] = IdleReq]
    /\ acks' = acks + 1
    /\ UNCHANGED <<now, responses, profiles, profileTags, activeSessions,
                   cache, console, msgCount, throttleRules, pollSessions>>

\* the next-state relation over the requests `slots` may hold, the inbound
\* messages `inputs`, the outcomes `oks` of a database call (TRUE: it
\* succeeds), the query `faults` of the throttle engine and at most `limit`
\* messages
Step(slots, inputs, oks, faults, limit) ==
    \/ \E d \in TickSteps : Tick(d)
    \/ \E s \in slots, i \in inputs : Receive(s, i[1], i[2], limit)
    \/ \E s \in slots, ok \in oks : Dispatch(s, ok)
    \/ \E s \in slots, ok \in oks : JoinSelect(s, ok)
    \/ \E s \in slots, ok \in oks : JoinTag(s, ok)
    \/ \E s \in slots, ok \in oks : StopProfile(s, ok)
    \/ \E s \in slots, ok \in oks : StopUpdate(s, ok)
    \/ \E s \in slots, f \in faults : RateCheck(s, f)
    \/ \E s \in slots, ok \in oks : InsertResponse(s, ok)
    \/ \E s \in slots, ok \in oks : UpdateMetrics(s, ok)
    \/ \E s \in slots, ok \in oks : ContributorTag(s, ok)
    \/ \E s \in slots, ok \in oks : Acknowledge(s, ok)

\* every interleaving of the requests and every downstream failure
Next == Step(Slots, InputsUnderFaults, BOOLEAN, Faults, MaxMsgs)

Spec == Init /\ [][Next]_vars

\* the same with a database that never fails
NextNoFault == Step(Slots, Inputs, {TRUE}, {"none"}, MaxMsgs)

SpecNoFault == Init /\ [][NextNoFault]_vars

\* one sender whose messages are handled one at a time by a database that
\* never fails: long enough for a run of denials
SerialInputs == {PhoneA} \X {JoinMsg(SidOpen), MsgStop, TextOther, TextTooLong}

NextSerial == Step({1}, SerialInputs, {TRUE}, {"none"}, MaxSerialMsgs)

SpecSerial == Init /\ [][NextSerial]_vars

\* one sender going through the command vocabulary, one message at a time,
\* with a database that never fails
NextCommands == Step({1}, CommandInputs, {TRUE}, {"none"}, MaxMsgs)

SpecCommands == Init /\ [][NextCommands]_vars

\* the service started on an empty database with any of the rule tables
InitRules ==
    /\ now = 0
    /\ responses = << >>
    /\ profiles = << >>
    /\ profileTags = {}
    /\ activeSessions = << >>
    /\ cache = << >>
    /\ console = << >>
    /\ reqs = [s \in Slots |-> IdleReq]
    /\ msgCount = 0
    /\ acks = 0
    /\ throttleRules \in RuleTables
    /\ pollSessions = pollSessionRows

\* two senders, one of them matching the VIP pattern, one message at a time
RuleInputs == Phones \X {JoinMsg(SidOpen), MsgStop, TextOther, TextLove}

NextRules == Step({1}, RuleInputs, {TRUE}, {"none"}, MaxMsgs)

SpecRules == InitRules /\ [][NextRules]_vars

-----------------------------------------------------------------------------
(* Properties *)

\* request s leaves checkRateLimit in this step
RateCheckBy(s) == reqs[s].pc = "rate_check" /\ reqs'[s].pc # "rate_check"

\* request s persists its contribution in this step
InsertBy(s) == reqs[s].pc = "insert" /\ reqs'[s].pc = "metrics"

\* processIncomingSMS returns for request s in this step
ReturnBy(s) == reqs[s].pc \notin {"idle", "reply"} /\ reqs'[s].pc = "reply"

\* the newest contribution of the profile is at least the cooldown old
SpacingOk(profileId) ==
    \A i \in getLastResponse(profileId) :
        now - responses[i].submittedAt >= SmsRule.cooldownBetweenResponses

\* C1: in every reachable state, no profile has more than
\* maxResponsesPerSessionPerProfile (10) contributions persisted in any one
\* poll session.
C1_SessionCapNeverExceeded ==
    \A p \in Phones, row \in pollSessions :
        getSessionResponseCount(p, row.id)
            <= SmsRule.maxResponsesPerSessionPerProfile

\* C2: two consecutive persisted contributions of one profile are at least
\* cooldownBetweenResponses (10 s) apart.
C2_AcceptedAtLeastCooldownApart ==
    \A i, j \in DOMAIN responses :
        /\ i < j
        /\ responses[i].profileId = responses[j].profileId
        /\ ~ \E k \in DOMAIN responses :
               i < k /\ k < j /\ responses[k].profileId = responses[i].profileId
        => responses[j].submittedAt - responses[i].submittedAt
               >= SmsRule.cooldownBetweenResponses

\* C3: an attempt that passes the length and spacing checks while the
\* profile has at least maxResponsesPerMinute (3) contributions in the
\* trailing 60 seconds is denied with rate_limit and waitTime 60.
C3_FullMinuteIsDenied ==
    [][\A s \in Slots :
          /\ RateCheckBy(s)
          /\ ~lengthViolation(SmsRule, reqs[s].text)
          /\ SpacingOk(reqs[s].phone)
          /\ Cardinality(rowsSince(reqs[s].phone, now - 60))
                >= SmsRule.maxResponsesPerMinute
          => /\ reqs'[s].rl.violationType = "rate_limit"
             /\ reqs'[s].rl.waitTime = 60]_vars

\* C4: checkTimeBasedLimit answers allowed=true only when the number of
\* contributions of the profile in the trailing window is below the cap,
\* for the minute, hour and day windows alike.
C4_CachedCountNeverFalseAllow ==
    \A p \in Phones :
        \A w \in {<<1, SmsRule.maxResponsesPerMinute>>,
                  <<60, SmsRule.maxResponsesPerHour>>,
                  <<1440, SmsRule.maxResponsesPerDay>>} :
            timeLimitCount(cache, p, w[1]) < w[2]
                => Cardinality(rowsSince(p, now - w[1] * 60)) < w[2]

\* C5: a contribution is persisted only while the per-session cap still
\* has a slot for it: two concurrent attempts never both act on the count
\* that one of them is about to change.
C5_InsertOnlyWhileSlotRemains ==
    [][\A s \in Slots :
          InsertBy(s)
          => getSessionResponseCount(reqs[s].phone, reqs[s].sessionId)
                < SmsRule.maxResponsesPerSessionPerProfile]_vars

\* C6: every persisted contribution is between minResponseLength and
\* maxResponseLength characters long (1 to 500 under the SMS rule).
C6_PersistedLengthWithinBounds ==
    \A i \in DOMAIN responses :
        /\ Len(responses[i].textContent) >= SmsRule.minResponseLength
        /\ Len(responses[i].textContent) <= SmsRule.maxResponseLength

\* C6 happens: a contribution has been persisted by the RESPONSE path and
\* an over-long one has been denied for its length.
C6_Witness ==
    /\ \E i \in DOMAIN responses : responses[i].submittedAt >= 0
    /\ \E s \in Slots :
          /\ reqs[s].body = TextTooLong
          /\ reqs[s].reply = "denied"
          /\ reqs[s].rl.violationType = "length_violation"

\* the checks checkAgainstRule makes before the duplicate check all pass
\* for the attempt of request s
EarlierChecksPass(s) ==
    LET p == reqs[s].phone IN
    /\ ~lengthViolation(SmsRule, reqs[s].text)
    /\ SpacingOk(p)
    /\ timeLimitCount(cache, p, 1) < SmsRule.maxResponsesPerMinute
    /\ timeLimitCount(cache, p, 60) < SmsRule.maxResponsesPerHour
    /\ timeLimitCount(cache, p, 1440) < SmsRule.maxResponsesPerDay
    /\ getSessionResponseCount(p, reqs[s].sessionId)
          < SmsRule.maxResponsesPerSessionPerProfile

SameNormalized(a, b) == trim(toLowerCase(a)) = trim(toLowerCase(b))

\* the contributions of the profile inside the duplicate window
InDuplicateWindow(p) == rowsSince(p, now - SmsRule.duplicateContentWindow * 60)

\* C7, over the whole window: when the earlier checks pass, an attempt is
\* denied with duplicate_content if its normalized text equals that of a
\* contribution of the profile inside the duplicate window, and a first
\* submission of a text is allowed.
C7_DuplicateInWindowDenied ==
    [][\A s \in Slots :
          RateCheckBy(s) /\ EarlierChecksPass(s)
          => IF \E i \in InDuplicateWindow(reqs[s].phone) :
                   SameNormalized(reqs[s].text, responses[i].textContent)
             THEN reqs'[s].rl.violationType = "duplicate_content"
             ELSE reqs'[s].rl.allowed]_vars

\* C7, over the rows the query returns: when the earlier checks pass and no
\* query fails, the attempt is denied with duplicate_content exactly if one of the 10 newest
\* contributions of the profile inside the duplicate window has the same
\* normalized text or a word-set similarity above 0.9, and is allowed
\* otherwise.
C7_DuplicateAmongNewestTenDenied ==
    [][\A s \in Slots :
          RateCheckBy(s) /\ EarlierChecksPass(s) /\ ~reqs'[s].rl.failedOpen
          => IF \E i \in newestRows(InDuplicateWindow(reqs[s].phone), 10) :
                   \/ SameNormalized(reqs[s].text, responses[i].textContent)
                   \/ calculateSimilarityOver90(
                         trim(toLowerCase(reqs[s].text)),
                         trim(toLowerCase(responses[i].textContent)))
             THEN /\ ~reqs'[s].rl.allowed
                  /\ reqs'[s].rl.violationType = "duplicate_content"
             ELSE reqs'[s].rl.allowed]_vars

\* C7 happens: "I love this" was persisted in this run and "i love this "
\* has been denied as its duplicate.
C7_Witness ==
    /\ \E i \in DOMAIN responses :
          responses[i].textContent = TextLove /\ responses[i].submittedAt >= 0
    /\ \E s \in Slots :
          /\ reqs[s].body = TextLoveAlt
          /\ reqs[s].reply = "denied"
          /\ reqs[s].rl.violationType = "duplicate_content"

\* the denials logged for the profile inside the rule's violation window
RecentDenials(p) ==
    {k \in DOMAIN console :
        /\ console[k].profileId = p
        /\ console[k].timestamp >= now - SmsRule.violationCooldown * 60}

\* C8: once maxViolationsBeforeBlock (5) attempts of a profile have been
\* denied inside the violation window, an attempt that passes every other
\* check is denied with cooldown_violation and a positive waitTime.
C8_EscalationAfterFiveDenials ==
    [][\A s \in Slots :
          /\ RateCheckBy(s)
          /\ Cardinality(RecentDenials(reqs[s].phone))
                >= SmsRule.maxViolationsBeforeBlock
          /\ EarlierChecksPass(s)
          /\ checkDuplicateContent(reqs[s].phone, reqs[s].text,
                                   SmsRule.duplicateContentWindow)
          => /\ reqs'[s].rl.violationType = "cooldown_violation"
             /\ reqs'[s].rl.waitTime > 0]_vars

\* C9: every denial checkRateLimit has returned is among the violation
\* records the escalation check reads for that profile.
C9_DenialsAreRecorded ==
    \A k \in DOMAIN console :
        k \in RecentDenials(console[k].profileId)
        => \E v \in DOMAIN getRecentViolations(console[k].profileId,
                                               SmsRule.violationCooldown) :
              LET rec == getRecentViolations(console[k].profileId,
                                             SmsRule.violationCooldown)[v]
              IN  /\ rec.profileId = console[k].profileId
                  /\ rec.violationType = console[k].violationType
                  /\ rec.timestamp = console[k].timestamp

\* the sender has no active attachment / the sender's profile is blocked,
\* in the state a step leads to
IdleAfter(p) == p \notin DOMAIN activeSessions' \/ ~activeSessions'[p].isActive
BlockedAfter(p) == p \in DOMAIN profiles' /\ profiles'[p].isBlocked

\* C10: when the processing of a STOP message returns, the sender is Idle
\* and the sender's profile is blocked.
C10_StopEndsIdleAndBlocked ==
    [][\A s \in Slots :
          ReturnBy(s) /\ reqs[s].cmd = "STOP"
          => IdleAfter(reqs[s].phone) /\ BlockedAfter(reqs[s].phone)]_vars

Attached(p) == p \in DOMAIN activeSessions /\ activeSessions[p].isActive

\* no row of poll_sessions with this id is open to SMS
InvalidTarget(sid) ==
    \A row \in pollSessions : row.id = sid => ~row.allowSms \/ ~row.isActive

\* C12: no step of a JOIN whose session does not exist, is not active or
\* does not allow SMS changes the conversation state, and the JOIN returns
\* a failure reply.
C12_InvalidJoinChangesNothing ==
    [][\A s \in Slots :
          /\ reqs[s].cmd = "JOIN"
          /\ InvalidTarget(reqs[s].sessionId)
          /\ reqs'[s] # reqs[s]
          => /\ activeSessions' = activeSessions
             /\ reqs'[s].pc \in {"join_select", "reply", "idle"}
             /\ reqs'[s].pc = "reply"
                   => /\ ~reqs'[s].success
                      /\ reqs'[s].reply \in {"not_found", "not_allowed"}]_vars

\* C12 happens: a sender attached to ABC123 has been refused a session that
\* does not allow SMS and is still attached to ABC123.
C12_Witness ==
    \E s \in Slots :
        /\ reqs[s].pc = "reply"
        /\ reqs[s].sessionId = SidNoSms
        /\ reqs[s].reply = "not_allowed"
        /\ Attached(reqs[s].phone)
        /\ activeSessions[reqs[s].phone].sessionId = SidOpen

\* C13: "join abc123" is read as a JOIN of ABC123 and attaches the sender
\* to ABC123, and a LEAVE of an attached sender leaves the sender Idle.
C13_JoinIgnoresCase ==
    [][\A s \in Slots :
          /\ reqs[s].pc = "idle" /\ reqs'[s].body = JoinLower
                => reqs'[s].cmd = "JOIN" /\ reqs'[s].sessionId = SidOpen
          /\ reqs[s].pc = "join_select" /\ reqs'[s].pc # "join_select"
                /\ reqs[s].body = JoinLower
                => /\ Attached(reqs[s].phone)'
                   /\ activeSessions'[reqs[s].phone].sessionId = SidOpen
          /\ reqs[s].pc = "profile" /\ reqs'[s].pc # "profile"
                /\ reqs[s].cmd = "LEAVE"
                => ~Attached(reqs[s].phone)']_vars

\* C13 happens: "join abc123" was answered with the confirmation, the
\* sender was attached to ABC123, and the LEAVE that followed has left the
\* sender Idle.
C13_Witness ==
    \E s \in Slots :
        /\ reqs[s].cmd = "LEAVE"
        /\ reqs[s].reply = "left"
        /\ <<reqs[s].phone, "sms_participant", "auto_behavior">> \in profileTags
        /\ reqs[s].phone \in DOMAIN activeSessions
        /\ activeSessions[reqs[s].phone].sessionId = SidOpen
        /\ ~activeSessions[reqs[s].phone].isActive

\* C14: whatever query fails inside checkRateLimit, the call returns to
\* handleResponseSubmission; a failed query makes it return allowed=true,
\* and it denies only what it denies when no query fails.
C14_ThrottleFailsOpen ==
    [][\A s \in Slots :
          RateCheckBy(s)
          => LET r == reqs[s]
                 clean == checkRateLimit(r.phone, r.phone, r.sessionId,
                                         r.text, "sms", "none")
             IN  /\ reqs'[s].rl.failedOpen
                       => reqs'[s].rl.allowed /\ reqs'[s].pc = "insert"
                 /\ ~reqs'[s].rl.allowed
                       => /\ ~clean.allowed
                          /\ clean.violationType = reqs'[s].rl.violationType
                          /\ reqs'[s].reply = "denied"
                 /\ reqs'[s].reply \notin {"save_error", "generic_error"}]_vars

\* C14 happens: a query of checkRateLimit has failed and the attempt went
\* on to be persisted.
C14_Witness ==
    \E s \in Slots :
        /\ reqs[s].pc = "metrics"
        /\ reqs[s].rl.failedOpen
        /\ reqs[s].rl.allowed
        /\ \E i \in DOMAIN responses :
              /\ responses[i].textContent = reqs[s].text
              /\ responses[i].submittedAt >= 0

\* C15: whatever downstream call fails, processIncomingSMS returns with a
\* reply text, and every message received has been acknowledged to the
\* provider exactly once or is still being handled.
C15_AlwaysRepliesAndAcknowledges ==
    /\ \A s \in Slots : reqs[s].pc = "reply" => reqs[s].reply # "none"
    /\ acks + Cardinality({s \in Slots : reqs[s].pc # "idle"}) = msgCount

\* C15 happens: a message whose handling failed downstream got the
\* fallback reply, after an earlier message had been acknowledged.
C15_Witness ==
    /\ acks >= 1
    /\ \E s \in Slots :
          reqs[s].pc = "reply" /\ reqs[s].reply = "generic_error"

\* the steps of handleResponseSubmission after checkRateLimit has allowed
AcceptPath == {"insert", "metrics", "contributor_tag"}

\* C16: a contribution the throttle engine allowed is persisted once, adds
\* one to the responseCount of the attachment, and is answered with the
\* success reply while the sender stays attached to the same session.
C16_AllowedResponseIsRecorded ==
    [][\A s \in Slots :
          LET r == reqs[s] IN
          /\ r.pc = "insert" /\ reqs'[s].pc # "insert"
                => responses' = Append(responses,
                                       Row(r.sessionId, r.phone, r.text, now))
          /\ r.pc = "metrics" /\ reqs'[s].pc # "metrics"
                => /\ responses' = responses
                   /\ Attached(r.phone)'
                   /\ activeSessions'[r.phone].responseCount
                         = activeSessions[r.phone].responseCount + 1
          /\ r.pc \in AcceptPath /\ reqs'[s].pc = "reply"
                => /\ r.pc = "contributor_tag"
                   /\ reqs'[s].success
                   /\ reqs'[s].reply = "recorded"
                   /\ Attached(r.phone)'
                   /\ activeSessions'[r.phone].sessionId = r.sessionId]_vars

\* C17: when the tagging that follows a persisted contribution returns,
\* the contribution is still persisted and the sender is told it was
\* recorded, whether or not the tag could be written.
C17_TagFailureIsSwallowed ==
    [][\A s \in Slots :
          reqs[s].pc = "contributor_tag" /\ reqs'[s].pc = "reply"
          => /\ responses' = responses
             /\ reqs'[s].success
             /\ reqs'[s].reply = "recorded"]_vars

\* C18: when the insert of the contribution fails, the sender gets the
\* "please try again" reply, the handler returns without trying again, no
\* row is added and the attachment with its responseCount is unchanged.
C18_FailedInsertChangesNothing ==
    [][\A s \in Slots :
          reqs[s].pc = "insert" /\ reqs'[s].pc \notin {"insert", "metrics"}
          => /\ reqs'[s].pc = "reply"
             /\ ~reqs'[s].success
             /\ reqs'[s].reply = "save_error"
             /\ responses' = responses
             /\ activeSessions' = activeSessions]_vars

\* C18 happens: an attached sender whose first contribution could not be
\* inserted has been told to try again, and the log is still empty.
C18_Witness ==
    \E s \in Slots :
        /\ reqs[s].pc = "reply"
        /\ reqs[s].reply = "save_error"
        /\ reqs[s].rl.allowed
        /\ rowsOf(reqs[s].phone) = {}
        /\ Attached(reqs[s].phone)
        /\ activeSessions[reqs[s].phone].responseCount = 0

\* the vocabulary, upper-cased
JoinWord   == <<"J","O","I","N">>
LeaveWords == {<<"L","E","A","V","E">>, <<"E","X","I","T">>, <<"Q","U","I","T">>}
HelpWords  == {<<"H","E","L","P">>, <<"?">>}
StopWords  == {<<"S","T","O","P">>,
               <<"U","N","S","U","B","S","C","R","I","B","E">>,
               <<"C","A","N","C","E","L">>}

\* C19: a message is classified, after trimming and upper-casing, as JOIN
\* when its first word is JOIN and a second word follows, else as LEAVE,
\* HELP or STOP by its first word, else as RESPONSE to the attached session
\* when the sender has an active attachment, else as UNKNOWN; the message
\* body is kept as sent and no state of the service changes.
C19_ParsePrecedence ==
    [][\A s \in Slots :
          reqs[s].pc = "idle" /\ reqs'[s].pc = "profile"
          => LET body  == reqs'[s].body
                 p     == reqs'[s].phone
                 words == splitSpace(toUpperCase(trim(body)))
                 kind  == reqs'[s].cmd
                 join  == words[1] = JoinWord /\ Len(words) >= 2
                 word  == ~join /\ words[1] \in LeaveWords \cup HelpWords \cup StopWords
             IN  /\ kind \in {"JOIN", "LEAVE", "HELP", "STOP", "RESPONSE", "UNKNOWN"}
                 /\ kind = "JOIN" <=> join
                 /\ kind = "JOIN" => reqs'[s].sessionId = words[2]
                 /\ kind = "LEAVE" <=> ~join /\ words[1] \in LeaveWords
                 /\ kind = "HELP" <=> ~join /\ words[1] \in HelpWords
                 /\ kind = "STOP" <=> ~join /\ words[1] \in StopWords
                 /\ kind = "RESPONSE" <=> ~join /\ ~word /\ Attached(p)
                 /\ kind = "RESPONSE"
                       => reqs'[s].sessionId = activeSessions[p].sessionId
                 /\ kind = "UNKNOWN" <=> ~join /\ ~word /\ ~Attached(p)
                 /\ UNCHANGED <<responses, profiles, profileTags,
                                activeSessions, cache, console>>]_vars

\* C19 happens: "cancel" from an attached sender has been read as STOP,
\* not as a contribution.
C19_Witness ==
    \E s \in Slots :
        /\ reqs[s].pc = "profile"
        /\ reqs[s].body = MsgCancel
        /\ reqs[s].cmd = "STOP"
        /\ Attached(reqs[s].phone)

\* rule i of the table is eligible for the sender: enabled, an allow
\* pattern matching if it declares any, no deny pattern matching
Eligible(i, phoneNumber) ==
    LET rule == throttleRules[i] IN
    /\ rule.enabled
    /\ rule.allowedPhonePatterns # << >>
          => \E k \in DOMAIN rule.allowedPhonePatterns :
                patternTest(rule.allowedPhonePatterns[k], phoneNumber)
    /\ ~ \E k \in DOMAIN rule.blockedPhonePatterns :
            patternTest(rule.blockedPhonePatterns[k], phoneNumber)

\* the eligible rules named after the SMS channel
Governing(phoneNumber) ==
    {i \in DOMAIN throttleRules :
        Eligible(i, phoneNumber) /\ nameIncludes(throttleRules[i], "SMS")}

HistMinute ==
    [i \in 1..3 |->
        Row(SidOther, PhoneA, IF i = 3 THEN TextOther ELSE <<Lowers[i]>>,
            IF i = 1 THEN 0 - 45 ELSE IF i = 2 THEN 0 - 30 ELSE 0 - 5)]

\* fifteen contributions of PhoneA to SidOpen in the last hour, none in the
\* last minute
HistHour == [i \in 1..15 |-> Row(SidOpen, PhoneA, <<Lowers[i]>>, 0 - 100 - 200 * i)]

\* fifty contributions of PhoneA to SidOpen in the last day, none in the
\* last hour
HistDay ==
    [i \in 1..50 |->
        Row(SidOpen, PhoneA, <<Lowers[(i % 26) + 1]>>, 0 - 3600 - 1000 * i)]

CheckHistories == {HistOld, HistRecent, HistMinute, HistHour, HistDay}

InitChecks ==
    /\ now = 0
    /\ responses \in CheckHistories
    /\ profiles = [p \in {responses[i].profileId : i \in DOMAIN responses} |->
                     [isBlocked |-> FALSE,
                      totalResponses |-> Cardinality(rowsOf(p))]]
    /\ profileTags = {}
    /\ activeSessions = << >>
    /\ cache = << >>
    /\ console = << >>
    /\ reqs = [s \in Slots |-> IdleReq]
    /\ msgCount = 0
    /\ acks = 0
    /\ throttleRules = defaultRules
    /\ pollSessions = pollSessionRows

NextChecks == Step({1}, SerialInputs, {TRUE}, {"none"}, MaxMsgs)

\* one sender, one request at a time, over databases that make each of the
\* throttle tests fail
SpecChecks == InitChecks /\ [][NextChecks]_vars

\* the eight tests of the SMS rule on the attempt of request s, in the
\* order length, escalation, spacing, minute, hour, day, session cap,
\* duplicate content: whether the test fails, and the violation
\* kind and waitTime reported when it does
OrderedChecks(s) ==
    LET p == reqs[s].phone
        last == getLastResponse(p)
    IN
    << [fails |-> lengthViolation(SmsRule, reqs[s].text),
        kind  |-> "length_violation", wait |-> 0],
       [fails |-> Len(getRecentViolations(p, SmsRule.violationCooldown))
                     >= SmsRule.maxViolationsBeforeBlock,
        kind  |-> "cooldown_violation",
        wait  |-> SmsRule.violationCooldown * 60],
       [fails |-> ~SpacingOk(p),
        kind  |-> "cooldown_violation",
        wait  |-> IF last = {} THEN 0
                  ELSE SmsRule.cooldownBetweenResponses
                         - (now - responses[CHOOSE i \in last : TRUE].submittedAt)],
       [fails |-> timeLimitCount(cache, p, 1) >= SmsRule.maxResponsesPerMinute,
        kind  |-> "rate_limit", wait |-> 60],
       [fails |-> timeLimitCount(cache, p, 60) >= SmsRule.maxResponsesPerHour,
        kind  |-> "rate_limit", wait |-> 3600],
       [fails |-> timeLimitCount(cache, p, 1440) >= SmsRule.maxResponsesPerDay,
        kind  |-> "rate_limit", wait |-> 86400],
       [fails |-> getSessionResponseCount(p, reqs[s].sessionId)
                     >= SmsRule.maxResponsesPerSessionPerProfile,
        kind  |-> "rate_limit", wait |-> 0],
       [fails |-> ~checkDuplicateContent(p, reqs[s].text,
                                         SmsRule.duplicateContentWindow),
        kind  |-> "duplicate_content", wait |-> 0] >>

\* C21: the throttle decision on an attempt is the outcome of the earliest
\* failing test in the order length, escalation, spacing, per-minute,
\* per-hour, per-day, session cap, duplicate content: a denial carries that
\* test's violation kind and waitTime, and the attempt is allowed only when
\* all eight tests pass.
C21_EarliestFailingCheckDecides ==
    [][\A s \in Slots :
          RateCheckBy(s)
          => LET checks  == OrderedChecks(s)
                 failing == {i \in DOMAIN checks : checks[i].fails}
                 first   == CHOOSE i \in failing : \A j \in failing : i <= j
             IN  IF failing = {} THEN reqs'[s].rl.allowed
                 ELSE /\ ~reqs'[s].rl.allowed
                      /\ reqs'[s].rl.violationType = checks[first].kind
                      /\ reqs'[s].rl.waitTime = checks[first].wait]_vars

\* an over-long attempt sent inside the cooldown was denied for its length
C21_Witness ==
    \E s \in Slots :
        /\ reqs[s].pc = "reply" /\ reqs[s].reply = "denied"
        /\ reqs[s].rl.violationType = "length_violation"
        /\ ~SpacingOk(reqs[s].phone)

\* the message of request s is the JOIN token with nothing after it
BareJoin(s) == toUpperCase(trim(reqs[s].body)) = JoinWord

\* C22: a message that is the JOIN token with no session id is handled as
\* UNKNOWN whatever the sender's conversation state: no step of its
\* handling changes the contribution log or the conversation state, and it
\* returns the usage hint.
C22_BareJoinIsUnknown ==
    [][\A s \in Slots :
          reqs[s].pc # "idle" /\ reqs'[s] # reqs[s] /\ BareJoin(s)
          => /\ UNCHANGED <<responses, activeSessions>>
             /\ reqs'[s].pc = "reply" => reqs'[s].reply = "unknown"]_vars

\* C23: a sender has at most one attachment, and a JOIN of an open session
\* B by a sender attached to another session A replaces the attachment by
\* one to B with responseCount 0, and the rest of the JOIN raises no error:
\* the automatic tag that follows the replacement is accepted.
C23_RejoinReplacesWithoutError ==
    [][\A s \in Slots :
          LET p == reqs[s].phone
              B == reqs[s].sessionId
          IN  /\ reqs[s].pc = "join_select" /\ reqs'[s].pc # "join_select"
              /\ Attached(p) /\ activeSessions[p].sessionId # B
              /\ ~InvalidTarget(B)
              => /\ activeSessions'[p] =
                      [sessionId |-> B, responseCount |-> 0, isActive |-> TRUE]
                 /\ reqs'[s].pc = "join_tag"
                 /\ ~tagInsertFails(p, "sms_participant", "auto_behavior")]_vars

\* request s is dispatched to its handler in this step
DispatchBy(s) == reqs[s].pc = "profile" /\ reqs'[s].pc # "profile"

\* C24: HELP, UNKNOWN, a LEAVE from a sender with no active attachment and
\* a RESPONSE the throttle denies each return a reply and leave the
\* sender's attachment (session, active flag, responseCount) and the
\* contribution log as they were.
C24_NonMutatingCommands ==
    [][\A s \in Slots :
          LET r == reqs[s] IN
          /\ DispatchBy(s) /\ r.cmd = "HELP"
             => /\ reqs'[s].pc = "reply" /\ reqs'[s].reply = "help"
                /\ UNCHANGED <<activeSessions, responses>>
          /\ DispatchBy(s) /\ r.cmd = "UNKNOWN"
             => /\ reqs'[s].pc = "reply" /\ reqs'[s].reply = "unknown"
                /\ UNCHANGED <<activeSessions, responses>>
          /\ DispatchBy(s) /\ r.cmd = "LEAVE" /\ ~Attached(r.phone)
             => /\ reqs'[s].pc = "reply" /\ reqs'[s].reply = "not_in_session"
                /\ UNCHANGED <<activeSessions, responses>>
          /\ RateCheckBy(s) /\ ~reqs'[s].rl.allowed
             => /\ reqs'[s].pc = "reply" /\ reqs'[s].reply = "denied"
                /\ UNCHANGED <<activeSessions, responses>>]_vars

\* C24 happens: a sender who left a session has sent LEAVE again and got
\* the not-in-session reply, the entry of the session left still there.
C24_Witness ==
    \E s \in Slots :
        /\ reqs[s].pc = "reply" /\ reqs[s].reply = "not_in_session"
        /\ reqs[s].phone \in DOMAIN activeSessions
        /\ ~activeSessions[reqs[s].phone].isActive

\* sender identifiers as a gateway may deliver them: three digits, ten
\* digits, ten digits beginning with 1, and fifteen digits
PhoneShort   == <<"5","5","5">>
PhoneLocal   == <<"4","1","5","5","5","5","0","0","0","1">>
PhoneLocal1  == <<"1","4","1","5","5","5","5","0","0","0">>
PhoneLongest == <<"+","9","1","9","8","7","6","5","4","3","2","1","0","1","2","3">>

SenderInputs ==
    {PhoneA, PhoneShort, PhoneLocal, PhoneLocal1, PhoneLongest}
        \X {JoinMsg(SidOpen), MsgStop, TextOther}

NextSenders == Step({1}, SenderInputs, {TRUE}, {"none"}, MaxMsgs)

\* one request at a time from senders of every shape, over a database that
\* never fails
SpecSenders == InitRules /\ [][NextSenders]_vars

\* C25: every message handed to processIncomingSMS comes from a sender
\* whose identifier holds 10 to 15 digits, and for such an identifier
\* validatePhoneNumber returns a number of at most 15 digits, a 10-digit
\* identifier being prefixed with the country code 1.
C25_OnlyValidSendersAreProcessed ==
    \A s \in Slots :
        reqs[s].pc # "idle"
        => LET cleaned == stripNonDigits(reqs[s].phone)
               v       == validatePhoneNumber(reqs[s].phone)
           IN  /\ Len(cleaned) \in 10..15
               /\ v.valid
               /\ Len(stripNonDigits(v.formatted)) <= 15
               /\ Len(cleaned) = 10 => v.formatted = <<"+", "1">> \o cleaned

\* the sender is attached to session sid
AttachedTo(p, sid) == Attached(p) /\ activeSessions[p].sessionId = sid

\* C26: the responseCount of an attachment to S counts the contributions
\* its sender has persisted to S since the attachment was made: when the
\* step that follows the insert of a contribution to S is taken, whatever
\* its outcome, the count of a sender attached to S goes up by one, and
\* the attachment of a sender not attached to S is left alone.
C26_ResponseCountTracksContributions ==
    [][\A s \in Slots :
          LET p == reqs[s].phone
              S == reqs[s].sessionId
          IN  reqs[s].pc = "metrics" /\ reqs'[s].pc # "metrics"
              => IF AttachedTo(p, S)
                 THEN activeSessions'[p].responseCount
                         = activeSessions[p].responseCount + 1
                 ELSE UNCHANGED activeSessions]_vars

\* C27: a contribution is persisted to session S only while its sender is
\* attached to S: once a LEAVE, a STOP or a JOIN of another session of that
\* sender has been processed, no insert for S follows, however the
\* requests of the sender interleave.
C27_NoInsertAfterDetach ==
    [][\A s \in Slots :
          InsertBy(s) => AttachedTo(reqs[s].phone, reqs[s].sessionId)]_vars

\* the host application ends a session, or switches its SMS channel off:
\* an UPDATE of the row's is_active or allow_sms column
CloseSession(sid) ==
    /\ \E row \in pollSessions : row.id = sid /\ row.isActive
    /\ pollSessions' = {IF row.id = sid THEN [row EXCEPT !.isActive = FALSE]
                        ELSE row : row \in pollSessions}
    /\ UNCHANGED <<now, responses, profiles, profileTags, activeSessions,
                   cache, console, reqs, msgCount, acks, throttleRules>>

DisableSms(sid) ==
    /\ \E row \in pollSessions : row.id = sid /\ row.allowSms
    /\ pollSessions' = {IF row.id = sid THEN [row EXCEPT !.allowSms = FALSE]
                        ELSE row : row \in pollSessions}
    /\ UNCHANGED <<now, responses, profiles, profileTags, activeSessions,
                   cache, console, reqs, msgCount, acks, throttleRules>>

ClosingInputs == {PhoneA} \X {JoinMsg(SidOpen), MsgStop, TextOther}

NextClosing ==
    \/ Step({1}, ClosingInputs, {TRUE}, {"none"}, MaxMsgs)
    \/ CloseSession(SidOpen)
    \/ DisableSms(SidOpen)

\* one sender, one request at a time, and a session that may end or lose
\* its SMS channel at any moment
SpecClosing == Init /\ [][NextClosing]_vars

\* C28: a contribution is persisted to session S only while the row of S
\* is active and allows SMS: after S has been ended or its SMS channel
\* switched off, a RESPONSE of a sender still attached to S inserts nothing.
C28_InsertOnlyIntoOpenSession ==
    [][\A s \in Slots :
          InsertBy(s)
          => \E row \in pollSessions :
                row.id = reqs[s].sessionId /\ row.isActive /\ row.allowSms]_vars

\* C29: a JOIN leaves its sender attached to the requested session exactly
\* when it is answered with the join confirmation: a JOIN that returns the
\* confirmation has its sender attached to that session, and a JOIN that
\* returns any other reply has not written an attachment (it is not past
\* the attach of handleJoinCommand) and leaves the attachments as they are.
C29_JoinAttachesIffConfirmed ==
    [][\A s \in Slots :
          reqs[s].cmd = "JOIN" /\ ReturnBy(s)
          => IF reqs'[s].reply = "join_ok"
             THEN AttachedTo(reqs[s].phone, reqs[s].sessionId)'
             ELSE /\ reqs[s].pc # "join_tag"
                  /\ UNCHANGED activeSessions]_vars

\* the contributions of the profile that table `responses` holds for the
\* session
PersistedTo(p, sid) ==
    Cardinality({i \in DOMAIN responses :
                    responses[i].profileId = p /\ responses[i].sessionId = sid})

RejoinInputs == {PhoneA} \X {JoinMsg(SidOpen), MsgLeave, MsgStop, TextOther}

NextRejoin == Step({1}, RejoinInputs, {TRUE}, {"none"}, MaxRejoinMsgs)

\* one sender who joins, contributes, leaves and joins again, one request
\* at a time
SpecRejoin == Init /\ [][NextRejoin]_vars

\* C30: the session cap compares the number of contributions of the
\* profile persisted in the session, whatever the responseCount of the
\* current attachment: an attempt reaching the session-cap test is denied
\* (rate_limit, no waitTime) exactly when that number has reached
\* maxResponsesPerSessionPerProfile, also after a LEAVE and a new JOIN
\* have put the attachment's counter back to 0.
C30_CapCountsPersistedContributions ==
    [][\A s \in Slots :
          LET p    == reqs[s].phone
              full == PersistedTo(p, reqs[s].sessionId)
                         >= SmsRule.maxResponsesPerSessionPerProfile
          IN  /\ RateCheckBy(s)
              /\ ~lengthViolation(SmsRule, reqs[s].text)
              /\ SpacingOk(p)
              /\ timeLimitCount(cache, p, 1) < SmsRule.maxResponsesPerMinute
              /\ timeLimitCount(cache, p, 60) < SmsRule.maxResponsesPerHour
              /\ timeLimitCount(cache, p, 1440) < SmsRule.maxResponsesPerDay
              => /\ full => /\ ~reqs'[s].rl.allowed
                            /\ reqs'[s].rl.violationType = "rate_limit"
                            /\ reqs'[s].rl.waitTime = 0
                 /\ ~full => \/ reqs'[s].rl.allowed
                             \/ reqs'[s].rl.violationType = "duplicate_content"]_vars

\* C30 happens: a sender attached anew, the counter of the attachment at
\* 0, has been denied on the session cap by the ten contributions the
\* session already holds.
C30_Witness ==
    \E s \in Slots :
        LET p == reqs[s].phone IN
        /\ reqs[s].pc = "reply" /\ reqs[s].reply = "denied"
        /\ reqs[s].rl.violationType = "rate_limit" /\ reqs[s].rl.waitTime = 0
        /\ AttachedTo(p, reqs[s].sessionId)
        /\ activeSessions[p].responseCount = 0
        /\ PersistedTo(p, reqs[s].sessionId)
              = SmsRule.maxResponsesPerSessionPerProfile
        /\ \E i \in DOMAIN responses :
              responses[i].profileId = p /\ responses[i].submittedAt >= 0

=============================================================================
